---------------------------- MODULE Spec2Model ----------------------------
(***************************************************************************)
(* State-machine model of gst-libs/gst/audio/audio-resampler.c: the        *)
(* GstAudioResampler structure, its public operations (new, update, reset, *)
(* resample, get_out_frames, get_in_frames, free) and the helpers they     *)
(* call.  Sample memory is one flat allocation (resampler->samples) with   *)
(* the per-block pointers sbuf[c] as offsets into it, all in units of one  *)
(* sample (bps bytes).  Tap values are not part of this model: an output   *)
(* sample is represented by the window of history it is computed from and  *)
(* the phase that selects its coefficient row.                             *)
(*                                                                         *)
(* Scope of the model (stated so that results can be read against it):     *)
(*  - g_return_val_if_fail checks are compiled in (the default build);     *)
(*  - rates are bounded by MaxRate, far below 2^30, so gint additions such *)
(*    as samp_phase + samp_frac never leave the gint range;                *)
(*  - the option "n-taps" is at least 2; the Kaiser options (cutoff,       *)
(*    stop-attenuation, transition-bandwidth) keep their defaults;         *)
(*  - the caller respects out_frames <= get_out_frames(in_frames);         *)
(*  - an access outside the sample memory, or a gsize value that would     *)
(*    drop below zero, is undefined behaviour: it is recorded in `fault`   *)
(*    and the instance takes no further call but free.                     *)
(***************************************************************************)
EXTENDS Integers, Sequences, FiniteSets, TLC

VARIABLES
    init_gonce,      \* audio_resampler_init's static init_gonce
    resample_2,      \* resample_funcs[4..7,12..15,20..23] are non-NULL
    alive,           \* a GstAudioResampler instance exists
    resampler,       \* the struct _GstAudioResampler
    caller_options,  \* the caller's own GstStructure
    fault,           \* "none", or the undefined behaviour that was hit
    last,            \* the last public call: arguments, pre-state, result
    ncalls           \* number of public calls made on the instance

vars == <<init_gonce, resample_2, alive, resampler, caller_options, fault,
          last, ncalls>>

---------------------------------------------------------------------------
(* Bounds of the model *)

MaxRate == 2
MaxIn == 4
MaxLen == 7
MaxCalls == 3

(* Program constants *)

ALIGN == 16
TAPS_OVERREAD == 16
DEFAULT_OPT_FILTER_OVERSAMPLE == 8
BlackmanDefaultTaps == 48
\* calculate_kaiser_params with the default quality {0.940, 0.97979, 85, 0.087}:
\* n = (85 - 8) / (2.285 * 2 * pi * 0.087) = 61 (truncated), n_taps = n + 1
KaiserDefaultTaps == 62

Methods == {"nearest", "linear", "cubic", "blackman-nuttall", "kaiser"}
Formats == {"S16", "S32", "F32", "F64"}

---------------------------------------------------------------------------
(* Arithmetic helpers *)

Min(a, b) == IF a < b THEN a ELSE b
Max(a, b) == IF a > b THEN a ELSE b
Abs(a) == IF a < 0 THEN -a ELSE a

\* C integer division truncates toward zero
CDiv(a, b) == IF a >= 0 THEN a \div b ELSE -((-a) \div b)

GST_ROUND_UP_N(n, a) == ((n + a - 1) \div a) * a
GST_ROUND_UP_8(n) == GST_ROUND_UP_N(n, 8)
GST_ROUND_UP_32(n) == GST_ROUND_UP_N(n, 32)

RECURSIVE gst_util_greatest_common_divisor(_, _)
gst_util_greatest_common_divisor(a, b) ==
    IF b = 0 THEN Abs(a) ELSE gst_util_greatest_common_divisor(b, a % b)

gst_util_uint64_scale_int(val, num, denom) == (val * num) \div denom

Zeros(n) == [i \in 1..n |-> 0]

---------------------------------------------------------------------------
(* Options: a GstStructure is a record of the recognised keys; -1 and      *)
(* "absent" stand for a key that is not set.  max-phase-error is the       *)
(* rational mpe[1] / mpe[2].                                               *)

EmptyStructure ==
    [n_taps |-> -1, filter_mode |-> "absent", filter_interpolation |-> "absent",
     oversample |-> -1, mpe |-> <<-1, 1>>]

\* GstStructure * : NULL, or a structure; `caller` tells that the pointer is
\* the caller's own structure rather than a structure owned by the resampler
NullOptions == [null |-> TRUE, caller |-> FALSE, s |-> EmptyStructure]

\* keeping the caller's pointer instead of a copy
gst_structure_alias(s) == [null |-> FALSE, caller |-> TRUE, s |-> s]

gst_structure_copy(s) == [null |-> FALSE, caller |-> FALSE, s |-> s]

get_opt_int(options, val, def) ==
    IF options.null \/ val = -1 THEN def ELSE val

get_opt_enum(options, val, def) ==
    IF options.null \/ val = "absent" THEN def ELSE val

GET_OPT_N_TAPS(options, def) == get_opt_int(options, options.s.n_taps, def)
GET_OPT_FILTER_MODE(options) ==
    get_opt_enum(options, options.s.filter_mode, "auto")
GET_OPT_FILTER_INTERPOLATION(options) ==
    get_opt_enum(options, options.s.filter_interpolation, "cubic")
GET_OPT_FILTER_OVERSAMPLE(options) ==
    get_opt_int(options, options.s.oversample, DEFAULT_OPT_FILTER_OVERSAMPLE)
GET_OPT_MAX_PHASE_ERROR(options) ==
    IF options.null \/ options.s.mpe[1] = -1 THEN <<1, 10>> ELSE options.s.mpe

---------------------------------------------------------------------------
(* The structure after g_slice_new0 *)

NullPtr == [st |-> "null", off |-> 0]

ZeroResampler ==
    [method |-> "nearest", non_interleaved |-> FALSE, format |-> "S16",
     options |-> NullOptions, channels |-> 0, in_rate |-> 0, out_rate |-> 0,
     bps |-> 0, ostride |-> 0,
     filter_mode |-> "interpolated", filter_interpolation |-> "none",
     oversample |-> 0,
     n_taps |-> 0, taps |-> <<>>, coeffmem |-> 0, alloc_taps |-> 0,
     alloc_phases |-> 0, cstride |-> 0, tmpcoeff |-> 0,
     deinterleave |-> "null", resample |-> "null",
     blocks |-> 0, inc |-> 0, samp_inc |-> 0, samp_frac |-> 0,
     samp_index |-> 0, samp_phase |-> 0, skip |-> 0,
     samples |-> <<>>, samples_len |-> 0, samples_avail |-> 0, sbuf |-> <<>>]

\* GST_AUDIO_FORMAT_INFO_WIDTH (info) / 8
FormatBps(format) ==
    CASE format = "S16" -> 2
      [] format = "S32" -> 4
      [] format = "F32" -> 4
      [] format = "F64" -> 8

---------------------------------------------------------------------------
(* alloc_coeff_mem *)

alloc_coeff_mem(r, bps, n_taps, n_phases, n_mult) ==
    IF r.alloc_taps >= n_taps /\ r.alloc_phases >= n_phases
    THEN r
    ELSE LET cstride == GST_ROUND_UP_32(bps * (n_mult * n_taps + TAPS_OVERREAD))
         IN [r EXCEPT !.tmpcoeff = n_taps,
                      !.cstride = cstride,
                      !.coeffmem = n_phases * cstride + ALIGN - 1,
                      !.alloc_taps = n_taps,
                      !.alloc_phases = n_phases]

---------------------------------------------------------------------------
(* resampler_calculate_taps *)

method_n_taps(r) ==
    CASE r.method = "nearest" -> 2
      [] r.method = "linear" -> GET_OPT_N_TAPS(r.options, 2)
      [] r.method = "cubic" -> GET_OPT_N_TAPS(r.options, 4)
      [] r.method = "blackman-nuttall" ->
             GET_OPT_N_TAPS(r.options, BlackmanDefaultTaps)
      [] r.method = "kaiser" -> KaiserDefaultTaps

\* the while (oversample > 1) loop of the downsampling branch
RECURSIVE reduce_oversample(_, _, _, _)
reduce_oversample(oversample, mult, in_rate, out_rate) ==
    IF oversample > 1 /\ ~(mult * out_rate >= in_rate)
    THEN reduce_oversample(oversample \div 2, mult * 2, in_rate, out_rate)
    ELSE oversample

select_interpolate(filter_mode, out_rate, oversample) ==
    CASE filter_mode = "interpolated" -> TRUE
      [] filter_mode = "full" -> FALSE
      [] OTHER -> ~(out_rate <= oversample)

resampler_calculate_taps(r, have_resample_2) ==
    LET in_rate == r.in_rate
        out_rate == r.out_rate
        down == out_rate < in_rate
        n0 == method_n_taps(r)
        n1 == IF down THEN gst_util_uint64_scale_int(n0, in_rate, out_rate)
              ELSE n0
        oversample0 == GET_OPT_FILTER_OVERSAMPLE(r.options)
        oversample == IF down
                      THEN reduce_oversample(oversample0, 2, in_rate, out_rate)
                      ELSE oversample0
        n_taps == IF n1 > 4 THEN GST_ROUND_UP_8(n1) ELSE n1
        filter_mode == GET_OPT_FILTER_MODE(r.options)
        interpolate == select_interpolate(filter_mode, out_rate, oversample)
        opt_interpolation == GET_OPT_FILTER_INTERPOLATION(r.options)
        filter_interpolation ==
            IF interpolate
            THEN (IF opt_interpolation = "none" THEN "cubic"
                  ELSE opt_interpolation)
            ELSE "none"
        mult == IF filter_interpolation = "cubic" THEN 4 ELSE 2
        otaps == oversample * n_taps + mult - 1
        r1 == [r EXCEPT !.n_taps = n_taps,
                        !.oversample = oversample,
                        !.filter_mode = filter_mode,
                        !.filter_interpolation = filter_interpolation]
        r2 == IF interpolate
              THEN alloc_coeff_mem(r1, r.bps, otaps, oversample, mult)
              ELSE alloc_coeff_mem([r1 EXCEPT !.taps = [p \in 1..out_rate |-> -1]],
                                   r.bps, n_taps, out_rate, 1)
        \* resample_funcs[index + 4]: only the slots 4..7 (resample_<type>_none_2)
        \* can be installed, the others stay NULL
        resample_2_func == have_resample_2 /\ filter_interpolation = "none"
        paired == ~r.non_interleaved /\ r.channels = 2 /\ n_taps >= 4
                  /\ resample_2_func
    IN [r2 EXCEPT !.samp_inc = in_rate \div out_rate,
                  !.samp_frac = in_rate % out_rate,
                  !.ostride = IF r.non_interleaved THEN 1 ELSE r.channels,
                  !.resample = IF paired THEN "2" ELSE "1",
                  !.deinterleave = IF paired THEN "copy" ELSE "type",
                  !.blocks = IF paired THEN 1 ELSE r.channels,
                  !.inc = IF paired THEN r.channels ELSE 1]

---------------------------------------------------------------------------
(* Sample memory.  A pointer is NULL, points at offset `off` of the current *)
(* allocation, or dangles into an allocation that was freed.               *)

OkPtr(off) == [st |-> "ok", off |-> off]

\* n samples starting k samples after ptr lie inside the allocation
InBounds(mem, ptr, k, n) ==
    n = 0 \/ (n > 0 /\ k >= 0 /\ ptr.st = "ok" /\ ptr.off + k + n <= Len(mem))

\* memmove (dst, src, n) on absolute offsets
MemMove(mem, dst, src, n) ==
    [i \in 1..Len(mem) |->
        IF i - 1 >= dst /\ i - 1 < dst + n THEN mem[i - dst + src] ELSE mem[i]]

\* memset (dst, 0, n)
MemZero(mem, dst, n) ==
    [i \in 1..Len(mem) |-> IF i - 1 >= dst /\ i - 1 < dst + n THEN 0 ELSE mem[i]]

Ok(r) == [r |-> r, fault |-> "none"]
Ub(r, what) == [r |-> r, fault |-> what]

---------------------------------------------------------------------------
(* get_sample_bufs *)

get_sample_bufs(r, need) ==
    IF ~(r.samples_len < need)
    THEN Ok(r)
    ELSE LET blk == GST_ROUND_UP_N(need * r.bps * r.inc, ALIGN) \div r.bps
             to_move == IF r.samples_len > 0 THEN r.samples_avail * r.inc ELSE 0
             total == r.blocks * blk
             src_ok == \A c \in 1..r.blocks :
                          InBounds(r.samples, r.sbuf[c], 0, to_move)
             dst_ok == \A c \in 1..r.blocks : (c - 1) * blk + to_move <= total
             \* the block whose memcpy wrote sample i last, 0 if none did
             writer(i) ==
                 LET W == {c \in 1..r.blocks :
                              i - 1 >= (c - 1) * blk /\ i - 1 < (c - 1) * blk + to_move}
                 IN IF W = {} THEN 0 ELSE CHOOSE c \in W : \A d \in W : d <= c
             samples ==
                 [i \in 1..total |->
                     IF writer(i) = 0 THEN 0
                     ELSE r.samples[r.sbuf[writer(i)].off + i - (writer(i) - 1) * blk]]
             sbuf == [c \in 1..Len(r.sbuf) |->
                         IF c <= r.blocks THEN OkPtr((c - 1) * blk)
                         ELSE IF r.sbuf[c].st = "null" THEN r.sbuf[c]
                         ELSE [st |-> "dangling", off |-> r.sbuf[c].off]]
         IN IF src_ok /\ dst_ok
            THEN Ok([r EXCEPT !.samples = samples, !.sbuf = sbuf,
                              !.samples_len = need])
            ELSE Ub([r EXCEPT !.samples = Zeros(total), !.sbuf = sbuf,
                              !.samples_len = need],
                    "get_sample_bufs: memcpy outside the sample memory")

---------------------------------------------------------------------------
(* gst_audio_resampler_reset *)

RECURSIVE reset_blocks(_, _, _)
reset_blocks(r, c, n) ==
    IF c > r.blocks THEN r.samples
    ELSE MemZero(reset_blocks(r, c + 1, n), r.sbuf[c].off, n)

\* a reset that leaves the samples in the buffers
gst_audio_resampler_reset_keeping(r) ==
    Ok([r EXCEPT !.samp_index = 0,
                 !.samples_avail = r.n_taps \div 2 - 1])

\* a reset that adds the zero half of the filter to the fill
gst_audio_resampler_reset_adding(r) ==
    Ok([r EXCEPT !.samp_index = 0,
                 !.samples_avail = r.samples_avail + r.n_taps \div 2 - 1])

gst_audio_resampler_reset(r) ==
    LET bytes == (r.n_taps \div 2) * r.inc
        has_samples == r.samples_len > 0
        ok == \A c \in 1..r.blocks : InBounds(r.samples, r.sbuf[c], 0, bytes)
        r1 == IF has_samples /\ ok
              THEN [r EXCEPT !.samples = reset_blocks(r, 1, bytes)]
              ELSE r
        r2 == [r1 EXCEPT !.samp_index = 0,
                         !.samples_avail = r.n_taps \div 2 - 1]
    IN IF has_samples /\ ~ok
       THEN Ub(r2, "reset: memset outside the sample memory")
       ELSE Ok(r2)

---------------------------------------------------------------------------
(* gst_audio_resampler_update *)

\* the smallest factor >= 2 of gcd: while (gcd % factor != 0) factor++
RECURSIVE smallest_factor(_, _)
smallest_factor(gcd, factor) ==
    IF gcd % factor # 0 THEN smallest_factor(gcd, factor + 1) ELSE factor

\* fabs (ph1 - ph2) < max_error, with ph1 = samp_phase / out_rate,
\* ph2 = (samp_phase / gcd) / (out_rate / gcd), max_error = mpe[1] / mpe[2]
phase_error_below(samp_phase, out_rate, gcd, mpe) ==
    Abs(samp_phase * (out_rate \div gcd) - (samp_phase \div gcd) * out_rate)
        * mpe[2] < mpe[1] * out_rate * (out_rate \div gcd)

\* the while (gcd > 1) loop
RECURSIVE reduce_gcd(_, _, _, _)
reduce_gcd(gcd, samp_phase, out_rate, mpe) ==
    IF gcd > 1 /\ ~phase_error_below(samp_phase, out_rate, gcd, mpe)
    THEN reduce_gcd(gcd \div smallest_factor(gcd, 2), samp_phase, out_rate, mpe)
    ELSE gcd

\* no division of the rates at all
update_gcd_none(in_rate, out_rate, samp_phase, mpe) == 1

\* a divisor that is always the full GCD of the rates
update_gcd_always_full(in_rate, out_rate, samp_phase, mpe) ==
    gst_util_greatest_common_divisor(in_rate, out_rate)

\* max_error < 1.0e-8: the only such value of the model is 0
update_gcd(in_rate, out_rate, samp_phase, mpe) ==
    LET gcd == gst_util_greatest_common_divisor(in_rate, out_rate)
    IN IF mpe[1] = 0
       THEN gst_util_greatest_common_divisor(gcd, samp_phase)
       ELSE reduce_gcd(gcd, samp_phase, out_rate, mpe)

\* if (in_rate <= 0) in_rate = resampler->in_rate; likewise out_rate
update_rate(arg, stored) == IF arg <= 0 THEN stored ELSE arg

\* if (options) { free the old ones; resampler->options = copy }
\* `options` is the argument: NULL, or the caller's structure
update_options(stored, options) ==
    IF options.null THEN stored ELSE gst_structure_copy(options.s)

RECURSIVE shift_blocks(_, _, _, _, _)
shift_blocks(r, c, doff, soff, bytes) ==
    IF c = 0 THEN r.samples
    ELSE MemMove(shift_blocks(r, c - 1, doff, soff, bytes),
                 r.sbuf[c].off + doff, r.sbuf[c].off + soff, bytes)

\* the history of the buffers g holds is shrunk or enlarged
shift_history(g, old_n_taps) ==
    LET r == g.r
        bpf == r.inc
        diff == CDiv(r.n_taps - old_n_taps, 2)
        bytes == IF diff < 0 THEN r.samples_avail * bpf - (-diff) * bpf
                 ELSE r.samples_avail * bpf
        soff == IF diff < 0 THEN r.samp_index * bpf + (-diff) * bpf
                ELSE r.samp_index * bpf
        doff == IF diff < 0 THEN r.samp_index * bpf
                ELSE r.samp_index * bpf + diff * bpf
        ok == /\ bytes >= 0
              /\ \A c \in 1..r.blocks :
                    /\ InBounds(r.samples, r.sbuf[c], soff, bytes)
                    /\ InBounds(r.samples, r.sbuf[c], doff, bytes)
        avail == r.samples_avail + diff
    IN IF g.fault # "none" THEN g
       ELSE IF ~ok
       THEN Ub([r EXCEPT !.samples_avail = Max(avail, 0)],
               "update: memmove outside the sample memory")
       ELSE IF avail < 0
       THEN Ub([r EXCEPT !.samples_avail = 0],
               "update: samples_avail below zero")
       ELSE Ok([r EXCEPT !.samples = shift_blocks(r, r.blocks, doff, soff, bytes),
                         !.samples_avail = avail])

\* the if (old_n_taps > 0) block
update_history(r0, old_n_taps) ==
    shift_history(get_sample_bufs(r0, r0.n_taps), old_n_taps)

gst_audio_resampler_update(r, in_rate_arg, out_rate_arg, options, have_resample_2) ==
    LET in_rate == update_rate(in_rate_arg, r.in_rate)
        out_rate == update_rate(out_rate_arg, r.out_rate)
        samp_phase == IF r.out_rate > 0
                      THEN gst_util_uint64_scale_int(r.samp_phase, out_rate,
                                                     r.out_rate)
                      ELSE 0
        gcd == update_gcd(in_rate, out_rate, samp_phase,
                          GET_OPT_MAX_PHASE_ERROR(r.options))
        r1 == [r EXCEPT !.samp_phase = samp_phase \div gcd,
                        !.in_rate = in_rate \div gcd,
                        !.out_rate = out_rate \div gcd,
                        !.options = update_options(r.options, options)]
        old_n_taps == r.n_taps
        r2 == resampler_calculate_taps(r1, have_resample_2)
    IN IF old_n_taps > 0 THEN update_history(r2, old_n_taps) ELSE Ok(r2)

---------------------------------------------------------------------------
(* gst_audio_resampler_new *)

\* the checks without the one on channels
new_args_ok_rates_only(channels, in_rate, out_rate) ==
    in_rate > 0 /\ out_rate > 0

\* the three g_return_val_if_fail checks
new_args_ok(channels, in_rate, out_rate) ==
    channels > 0 /\ in_rate > 0 /\ out_rate > 0

\* "half of the filter is filled with 0"
new_half_filled(r) ==
    [r EXCEPT !.samp_index = 0, !.samples_avail = r.n_taps \div 2 - 1]

gst_audio_resampler_new(method, non_interleaved, format, channels, in_rate, out_rate, options, have_resample_2) ==
    LET r0 == [ZeroResampler EXCEPT !.method = method,
                                    !.non_interleaved = non_interleaved,
                                    !.format = format,
                                    !.channels = channels,
                                    !.bps = FormatBps(format),
                                    !.sbuf = [c \in 1..channels |-> NullPtr]]
    IN new_half_filled(gst_audio_resampler_update(r0, in_rate, out_rate, options,
                                                  have_resample_2).r)

---------------------------------------------------------------------------
(* calc_out, gst_audio_resampler_get_out_frames, _get_in_frames,           *)
(* _get_max_latency                                                        *)

\* a calc_out that counts one output sample more
calc_out_one_more(r, in) ==
    LET out == in * r.out_rate
    IN IF out < r.samp_phase THEN 0
       ELSE ((out - r.samp_phase) \div r.in_rate) + 2

calc_out(r, in) ==
    LET out == in * r.out_rate
    IN IF out < r.samp_phase THEN 0
       ELSE ((out - r.samp_phase) \div r.in_rate) + 1

\* a get_out_frames that leaves the filter length out of need
gst_audio_resampler_get_out_frames_no_taps(r, in_frames) ==
    LET need == r.samp_index + r.skip
        avail == r.samples_avail + in_frames
    IN IF avail < need THEN 0 ELSE calc_out(r, avail - need)

gst_audio_resampler_get_out_frames(r, in_frames) ==
    LET need == r.n_taps + r.samp_index + r.skip
        avail == r.samples_avail + in_frames
    IN IF avail < need THEN 0 ELSE calc_out(r, avail - need)

gst_audio_resampler_get_in_frames(r, out_frames) ==
    ((r.samp_phase + out_frames * r.samp_frac) \div r.out_rate)
        + out_frames * r.samp_inc

gst_audio_resampler_get_max_latency(r) == r.n_taps \div 2

---------------------------------------------------------------------------
(* The caller's input: in == NULL, or in[] with one interleaved buffer, or *)
(* (non-interleaved) one buffer per channel.  A sample read past the end   *)
(* of a caller buffer has the value Garbage.                               *)

Garbage == -1

InSample(kind, i, c) == IF kind = "zeros" THEN 0 ELSE 10 * (c + 1) + i + 1

MakeInput(kind, in_frames, channels, non_interleaved) ==
    IF kind = "null" THEN [null |-> TRUE, bufs |-> <<>>]
    ELSE IF non_interleaved
    THEN [null |-> FALSE,
          bufs |-> [c \in 1..channels |->
                       [i \in 1..in_frames |-> InSample(kind, i - 1, c - 1)]]]
    ELSE [null |-> FALSE,
          bufs |-> << [k \in 1..(in_frames * channels) |->
                          InSample(kind, (k - 1) \div channels,
                                   (k - 1) % channels)] >>]

---------------------------------------------------------------------------
(* deinterleave_<type> and deinterleave_copy *)

\* *ip for ip = (type *) in[0] + c + i * channels
in_read(in, k) ==
    IF k < Len(in.bufs[1]) THEN in.bufs[1][k + 1] ELSE Garbage

\* the sample memory after the loop body ran for channels 1..c
RECURSIVE deinterleave_type_channels(_, _, _, _)
deinterleave_type_channels(r, in, in_frames, c) ==
    IF c = 0 THEN r.samples
    ELSE LET mem == deinterleave_type_channels(r, in, in_frames, c - 1)
             at == r.sbuf[c].off + r.samples_avail
         IN [i \in 1..Len(mem) |->
                IF i - 1 >= at /\ i - 1 < at + in_frames
                THEN IF in.null THEN 0
                     ELSE in_read(in, (c - 1) + r.channels * (i - 1 - at))
                ELSE mem[i]]

deinterleave_type(r, in, in_frames) ==
    LET dst_ok == \A c \in 1..r.channels :
                     InBounds(r.samples, r.sbuf[c], r.samples_avail, in_frames)
    IN IF ~dst_ok
       THEN Ub(r, "deinterleave: write outside the sample memory")
       ELSE Ok([r EXCEPT !.samples =
                   deinterleave_type_channels(r, in, in_frames, r.channels)])

\* the sample memory after the loop body ran for blocks 1..c
RECURSIVE deinterleave_copy_blocks(_, _, _, _)
deinterleave_copy_blocks(r, in, in_frames, c) ==
    IF c = 0 THEN r.samples
    ELSE LET mem == deinterleave_copy_blocks(r, in, in_frames, c - 1)
             at == r.sbuf[c].off + r.samples_avail * r.inc
             in_bytes == in_frames * r.inc
         IN [i \in 1..Len(mem) |->
                IF i - 1 >= at /\ i - 1 < at + in_bytes
                THEN IF in.null THEN 0 ELSE in.bufs[c][i - at]
                ELSE mem[i]]

deinterleave_copy(r, in, in_frames) ==
    LET bpf == r.inc
        bytes_avail == r.samples_avail * bpf
        in_bytes == in_frames * bpf
        dst_ok == \A c \in 1..r.blocks :
                     InBounds(r.samples, r.sbuf[c], bytes_avail, in_bytes)
        src_ok == in.null \/ in_bytes = 0
                  \/ \A c \in 1..r.blocks :
                        c <= Len(in.bufs) /\ in_bytes <= Len(in.bufs[c])
    IN IF ~dst_ok
       THEN Ub(r, "deinterleave: write outside the sample memory")
       ELSE IF ~src_ok
       THEN Ub(r, "deinterleave: read past the end of in[c]")
       ELSE Ok([r EXCEPT !.samples =
                   deinterleave_copy_blocks(r, in, in_frames, r.blocks)])

deinterleave(r, in, in_frames) ==
    IF r.deinterleave = "copy" THEN deinterleave_copy(r, in, in_frames)
    ELSE deinterleave_type(r, in, in_frames)

---------------------------------------------------------------------------
(* get_taps_<type>_none / _linear / _cubic: the row of coefficients for    *)
(* the phase, and the phase engine                                         *)

\* the advance of *samp_index and *samp_phase at the end of get_taps
\* a phase engine that forgets the carry
phase_advance_nocarry(r, samp_index, samp_phase) ==
    [samp_index |-> samp_index + r.samp_inc,
     samp_phase |-> samp_phase + r.samp_frac]

\* a phase engine that carries only when the phase has passed out_rate
phase_advance_late_carry(r, samp_index, samp_phase) ==
    LET i1 == samp_index + r.samp_inc
        p1 == samp_phase + r.samp_frac
    IN IF p1 > r.out_rate
       THEN [samp_index |-> i1 + 1, samp_phase |-> p1 - r.out_rate]
       ELSE [samp_index |-> i1, samp_phase |-> p1]

phase_advance(r, samp_index, samp_phase) ==
    LET i1 == samp_index + r.samp_inc
        p1 == samp_phase + r.samp_frac
    IN IF p1 >= r.out_rate
       THEN [samp_index |-> i1 + 1, samp_phase |-> p1 - r.out_rate]
       ELSE [samp_index |-> i1, samp_phase |-> p1]

\* res: the byte offset of the row in coeff; frac: the interpolation fraction
get_taps_row(r, samp_phase) ==
    IF r.filter_interpolation = "none"
    THEN [res |-> samp_phase * r.cstride, frac |-> 0]
    ELSE LET pos == samp_phase * r.oversample
             offset == (r.oversample - 1) - (pos \div r.out_rate)
         IN [res |-> offset * r.cstride, frac |-> pos % r.out_rate]

\* the out_len iterations of the inner loop, from (samp_index, samp_phase):
\* per output sample, where its window starts, its phase, and the state
\* of the phase engine after it
RECURSIVE resample_loop(_, _, _, _)
resample_loop(r, samp_index, samp_phase, out_len) ==
    IF out_len = 0 THEN <<>>
    ELSE LET n == phase_advance(r, samp_index, samp_phase)
         IN << [start |-> samp_index, phase |-> samp_phase,
                samp_index |-> n.samp_index, samp_phase |-> n.samp_phase] >>
            \o resample_loop(r, n.samp_index, n.samp_phase, out_len - 1)

\* get_taps_<type>_none computing every row at the first output sample
memoize_eager(r, trace) ==
    IF r.filter_interpolation # "none" \/ Len(trace) = 0 THEN r.taps
    ELSE [p \in 1..Len(r.taps) |->
             IF r.taps[p] = -1 THEN (p - 1) * r.cstride ELSE r.taps[p]]

\* the memo table after get_taps_<type>_none ran for the phases of `trace`
memoize(r, trace) ==
    IF r.filter_interpolation # "none" THEN r.taps
    ELSE [p \in 1..Len(r.taps) |->
             IF r.taps[p] = -1 /\ \E k \in 1..Len(trace) : trace[k].phase = p - 1
             THEN (p - 1) * r.cstride
             ELSE r.taps[p]]

---------------------------------------------------------------------------
(* resample_<type>_<inter>_<channels>_<arch>; `channels` of the macro is   *)
(* 1 for the per-channel functions and 2 for the two-channel functions,    *)
(* which is resampler->inc                                                 *)

RECURSIVE kernel_moves(_, _, _, _)
kernel_moves(r, c, samp_index, in_len) ==
    IF c = 0 THEN r.samples
    ELSE MemMove(kernel_moves(r, c - 1, samp_index, in_len),
                 r.sbuf[c].off, r.sbuf[c].off + samp_index * r.inc,
                 (in_len - samp_index) * r.inc)

\* the n_taps samples of channel ch that one output sample is computed from
window(r, ch, start) ==
    LET c == IF r.inc = 1 THEN ch ELSE 1
        k == IF r.inc = 1 THEN 0 ELSE ch - 1
    IN [j \in 1..r.n_taps |->
           r.samples[r.sbuf[c].off + (start + j - 1) * r.inc + k + 1]]

resample_func(r, in_len, out_len) ==
    LET trace == resample_loop(r, r.samp_index, r.samp_phase, out_len)
        final == IF out_len = 0
                 THEN [samp_index |-> r.samp_index, samp_phase |-> r.samp_phase]
                 ELSE [samp_index |-> trace[out_len].samp_index,
                       samp_phase |-> trace[out_len].samp_phase]
        reads_ok == \A c \in 1..r.blocks : \A k \in 1..out_len :
                       InBounds(r.samples, r.sbuf[c], trace[k].start * r.inc,
                                r.n_taps * r.inc)
        move_len == (in_len - final.samp_index) * r.inc
        move_ok == /\ move_len >= 0
                   /\ \A c \in 1..r.blocks :
                         InBounds(r.samples, r.sbuf[c],
                                  final.samp_index * r.inc, move_len)
        out == IF reads_ok
               THEN [k \in 1..out_len |->
                        [ch \in 1..r.channels |->
                            [phase |-> trace[k].phase,
                             win |-> window(r, ch, trace[k].start)]]]
               ELSE <<>>
        after == [r EXCEPT !.samp_index = 0,
                           !.samp_phase = final.samp_phase,
                           !.taps = memoize(r, trace)]
        res(rr, f) == [r |-> rr, fault |-> f, trace |-> trace, out |-> out,
                       consumed |-> final.samp_index - r.samp_index]
    IN IF ~reads_ok
       THEN res(after, "resample: window outside the sample memory")
       ELSE IF ~move_ok
       THEN res(after, "resample: memmove outside the sample memory")
       ELSE res([after EXCEPT
                    !.samples = kernel_moves(r, r.blocks, final.samp_index, in_len)],
                "none")

---------------------------------------------------------------------------
(* gst_audio_resampler_resample.  path tells where the call returned:      *)
(* "skip" (all input skipped), "short" (not enough samples to start),      *)
(* "kernel" (the bound resample function ran).                             *)

resample_result(r, f, path, written, trace, out) ==
    [r |-> r, fault |-> f, path |-> path, written |-> written,
     trace |-> trace, out |-> out]

\* an "update pointers" block that defers the consumed frames as a skip
resample_consume_deferring(r, samples_avail, consumed) ==
    IF consumed > 0
    THEN [r EXCEPT !.samples_avail = Max(samples_avail - consumed, 0),
                   !.skip = consumed]
    ELSE r

\* an "update pointers" block that leaves the fill as it was
resample_consume_keeping(r, samples_avail, consumed) == r

\* the "update pointers" block
resample_consume(r, samples_avail, consumed) ==
    IF consumed > 0
    THEN LET left == samples_avail - consumed
         IN IF left > 0
            THEN [r EXCEPT !.samples_avail = left]
            ELSE [r EXCEPT !.samples_avail = 0, !.skip = -left]
    ELSE r

\* a skip test that lets a call with exactly skip frames through
resample_skips_more(r, in_frames) == r.skip > in_frames

\* "do sample skipping": all of the input is skipped
resample_skips_all(r, in_frames) == r.skip >= in_frames

\* the bound resample function has run: the "update pointers" block
resample_kernel(k, samples_avail, out_frames) ==
    IF k.fault # "none"
    THEN resample_result(k.r, k.fault, "fault", 0, k.trace, <<>>)
    ELSE resample_result(resample_consume(k.r, samples_avail, k.consumed),
                         "none", "kernel", out_frames, k.trace, k.out)

\* the samples are copied: the fill is updated and the kernel runs when
\* there are enough samples to start
resample_filled(d, samples_avail, out_frames) ==
    LET r2 == [d.r EXCEPT !.samples_avail = samples_avail]
        need == r2.n_taps + r2.samp_index
    IN IF d.fault # "none"
       THEN resample_result(r2, d.fault, "fault", 0, <<>>, <<>>)
       ELSE IF samples_avail < need
       THEN resample_result(r2, "none", "short", 0, <<>>, <<>>)
       ELSE resample_kernel(resample_func(r2, samples_avail, out_frames),
                            samples_avail, out_frames)

\* the buffers g are large enough: copy/deinterleave the samples
resample_copy(g, in, in_frames, samples_avail, out_frames) ==
    IF g.fault # "none"
    THEN resample_result(g.r, g.fault, "fault", 0, <<>>, <<>>)
    ELSE resample_filled(deinterleave(g.r, in, in_frames), samples_avail,
                         out_frames)

\* the call after the skipped samples are added to the sample index
resample_skipped(r1, in, in_frames, out_frames) ==
    resample_copy(get_sample_bufs(r1, in_frames + r1.samples_avail), in,
                  in_frames, r1.samples_avail + in_frames, out_frames)

gst_audio_resampler_resample(r, in, in_frames, out_frames) ==
    IF resample_skips_all(r, in_frames)
    THEN resample_result([r EXCEPT !.skip = r.skip - in_frames], "none",
                         "skip", 0, <<>>, <<>>)
    ELSE resample_skipped([r EXCEPT !.samp_index = r.samp_index + r.skip],
                          in, in_frames, out_frames)

---------------------------------------------------------------------------
(* The environment: what the caller passes *)

\* the contents the caller gives its option structure
FirstOptions == [EmptyStructure EXCEPT !.n_taps = 4, !.filter_mode = "full"]

OptionBags ==
    { FirstOptions,
      [EmptyStructure EXCEPT !.filter_mode = "interpolated",
                             !.filter_interpolation = "linear",
                             !.oversample = 2, !.mpe = <<0, 1>>] }

\* (method, non-interleaved flag, format, channels) given to new
NewConfigs ==
    { <<"nearest", FALSE, "S16", 1>>,
      <<"cubic", FALSE, "S32", 2>>,
      <<"linear", TRUE, "F32", 2>> }

\* the calls of new: the configurations at every pair of rates, and calls
\* with a channels, an in_rate or an out_rate that is not positive
NewCalls ==
    { [method |-> cfg[1], non_interleaved |-> cfg[2], format |-> cfg[3],
       channels |-> cfg[4], in_rate |-> i, out_rate |-> o] :
          cfg \in NewConfigs, i \in 1..MaxRate, o \in 1..MaxRate }
    \cup
    { [method |-> "nearest", non_interleaved |-> FALSE, format |-> "S16",
       channels |-> a[1], in_rate |-> a[2], out_rate |-> a[3]] :
          a \in { <<0, 1, 1>>, <<1, 0, 1>>, <<1, 1, 0>> } }

InKinds == {"null", "data"}

\* new is called with options == NULL: options are given with update,
\* which new itself calls
NewOptionsNull == {TRUE}

\* the in_frames of a resample call: no frame, one frame, a burst
InFrames == {0, 1, MaxIn}

\* the out_frames asked when get_out_frames allows g: none, one, all
OutFrames(g) == {n \in {0, 1, g} : n <= g}

\* the options argument: NULL, or the caller's structure
OptionsArg(is_null) ==
    IF is_null THEN NullOptions
    ELSE [null |-> FALSE, caller |-> TRUE, s |-> caller_options]

\* what is kept of the last public call: its arguments and its result
\* (get_out is gst_audio_resampler_get_out_frames (in_frames) just before a
\* resample call, phases and indexes the samp_phase and samp_index after
\* each output sample)
NoCall ==
    [op |-> "none", ok |-> TRUE,
     channels |-> 0, in_rate |-> 0, out_rate |-> 0, opt_null |-> TRUE,
     in_frames |-> 0, out_frames |-> 0, get_out |-> 0,
     path |-> "none", written |-> 0, phases |-> <<>>, indexes |-> <<>>]

Call(op) == [NoCall EXCEPT !.op = op]

---------------------------------------------------------------------------
Init ==
    /\ init_gonce = 0
    /\ resample_2 = FALSE
    /\ alive = FALSE
    /\ resampler = ZeroResampler
    /\ caller_options = FirstOptions
    /\ fault = "none"
    /\ last = NoCall
    /\ ncalls = 0

\* the caller changes its own option structure after a call it passed it to
CallerSetOptions ==
    /\ last.op \in {"new", "update"}
    /\ last.ok /\ ~last.opt_null
    /\ \E s \in OptionBags :
          /\ s # caller_options
          /\ caller_options' = s
          /\ resampler' = IF resampler.options.caller
                          THEN [resampler EXCEPT !.options.s = s]
                          ELSE resampler
    /\ UNCHANGED <<init_gonce, resample_2, alive, fault, last, ncalls>>

\* gst_audio_resampler_new.  With a channels, in_rate or out_rate that is
\* not positive it returns NULL before anything else; otherwise
\* audio_resampler_init installs the two-channel functions or not,
\* depending on the build and the CPU, and the instance is created.
New ==
    \E a \in NewCalls :
        LET ok == new_args_ok(a.channels, a.in_rate, a.out_rate)
            call == [Call("new") EXCEPT !.ok = ok, !.channels = a.channels,
                                        !.in_rate = a.in_rate,
                                        !.out_rate = a.out_rate]
        IN IF ~ok
           THEN /\ ncalls < MaxCalls
                /\ last' = call
                /\ ncalls' = IF alive THEN ncalls + 1 ELSE ncalls
                /\ UNCHANGED <<init_gonce, resample_2, alive, resampler,
                               caller_options, fault>>
           ELSE /\ ~alive
                /\ \E opt_null \in NewOptionsNull, have_2 \in BOOLEAN :
                      /\ init_gonce # 0 => have_2 = resample_2
                      /\ resample_2' = have_2
                      /\ resampler' =
                            gst_audio_resampler_new(a.method, a.non_interleaved,
                                a.format, a.channels, a.in_rate, a.out_rate,
                                OptionsArg(opt_null), have_2)
                      /\ last' = [call EXCEPT !.opt_null = opt_null]
                /\ init_gonce' = 1
                /\ alive' = TRUE
                /\ ncalls' = 0
                /\ UNCHANGED <<caller_options, fault>>

Usable == alive /\ fault = "none" /\ ncalls < MaxCalls

\* the instance after a call, and whether the call left defined behaviour
Returned(u) == resampler' = u.r /\ fault' = u.fault

\* what a resample call did, as the caller sees it
Resampled(u, in_frames, out_frames, get_out) ==
    /\ Returned(u)
    /\ last' = [Call("resample") EXCEPT
                   !.in_frames = in_frames,
                   !.out_frames = out_frames,
                   !.get_out = get_out,
                   !.path = u.path, !.written = u.written,
                   !.phases = [k \in 1..Len(u.trace) |-> u.trace[k].samp_phase],
                   !.indexes = [k \in 1..Len(u.trace) |-> u.trace[k].samp_index]]

Update ==
    /\ Usable
    /\ \E in_rate \in 0..MaxRate, out_rate \in 0..MaxRate, opt_null \in BOOLEAN :
          /\ Returned(gst_audio_resampler_update(resampler, in_rate, out_rate,
                                                 OptionsArg(opt_null), resample_2))
          /\ last' = [Call("update") EXCEPT !.in_rate = in_rate,
                                            !.out_rate = out_rate,
                                            !.opt_null = opt_null]
    /\ ncalls' = ncalls + 1
    /\ UNCHANGED <<init_gonce, resample_2, alive, caller_options>>

Reset ==
    /\ Usable
    /\ Returned(gst_audio_resampler_reset(resampler))
    /\ last' = Call("reset")
    /\ ncalls' = ncalls + 1
    /\ UNCHANGED <<init_gonce, resample_2, alive, caller_options>>

Resample ==
    /\ Usable
    /\ \E kind \in InKinds, in_frames \in InFrames :
          /\ in_frames + resampler.samples_avail <= MaxLen
          /\ \E out_frames \in OutFrames(
                 gst_audio_resampler_get_out_frames(resampler, in_frames)) :
                Resampled(gst_audio_resampler_resample(resampler,
                              MakeInput(kind, in_frames, resampler.channels,
                                        resampler.non_interleaved),
                              in_frames, out_frames),
                          in_frames, out_frames,
                          gst_audio_resampler_get_out_frames(resampler, in_frames))
    /\ ncalls' = ncalls + 1
    /\ UNCHANGED <<init_gonce, resample_2, alive, caller_options>>

\* gst_audio_resampler_free
Free ==
    /\ alive
    /\ alive' = FALSE
    /\ resampler' = ZeroResampler
    /\ fault' = "none"
    /\ last' = Call("free")
    /\ ncalls' = 0
    /\ UNCHANGED <<init_gonce, resample_2, caller_options>>

Next == CallerSetOptions \/ New \/ Update \/ Reset \/ Resample \/ Free

Spec == Init /\ [][Next]_vars

---------------------------------------------------------------------------
(* Properties                                                              *)

\* an instance exists and no call on it has run into undefined behaviour
Sound == alive /\ fault = "none"

\* C1: a resample call whose out_frames is at most what get_out_frames
\* answered for its in_frames just before the call writes exactly
\* out_frames frames.
C1_ResampleWritesOutFrames ==
    (last.op = "resample" /\ last.out_frames <= last.get_out)
        => last.written = last.out_frames

\* C2: between calls 0 <= samp_phase < out_rate and samp_index >= 0, and
\* the same holds after every output sample of a resample call.
C2_PhaseInRange ==
    Sound =>
        /\ resampler.samp_phase >= 0
        /\ resampler.samp_phase < resampler.out_rate
        /\ resampler.samp_index >= 0
        /\ last.op = "resample" =>
              \A k \in 1..Len(last.phases) :
                 /\ last.phases[k] >= 0
                 /\ last.phases[k] < resampler.out_rate
                 /\ last.indexes[k] >= 0

\* a resample call produced several samples and the phase wrapped around
C2_Witness ==
    /\ Sound
    /\ last.op = "resample"
    /\ \E k \in 1..(Len(last.phases) - 1) : last.phases[k + 1] < last.phases[k]

\* C3: between calls the history fill never exceeds the capacity of the
\* sample buffers, once they are allocated.
C3_AvailWithinLen ==
    (Sound /\ resampler.samples_len > 0)
        => resampler.samples_avail <= resampler.samples_len

\* the first samples_avail frames of every block the next resample call
\* reads (after its get_sample_bufs) are zero
HistoryZero(r) ==
    LET g == get_sample_bufs(r, r.samples_avail + 1)
        n == g.r.samples_avail * g.r.inc
    IN /\ g.fault = "none"
       /\ \A c \in 1..g.r.blocks :
             /\ InBounds(g.r.samples, g.r.sbuf[c], 0, n)
             /\ \A j \in 1..n : g.r.samples[g.r.sbuf[c].off + j] = 0

\* C4: right after new and right after every reset, samp_index = 0,
\* samples_avail = n_taps / 2 - 1 and the history the next resample call
\* reads is zero.
C4_FreshHistory ==
    (alive /\ last.ok /\ last.op \in {"new", "reset"}) =>
        /\ fault = "none"
        /\ resampler.samp_index = 0
        /\ resampler.samples_avail = resampler.n_taps \div 2 - 1
        /\ HistoryZero(resampler)

\* reset ran on an instance that held samples which were not zero
C4_Witness ==
    /\ alive /\ last.op = "reset"
    /\ resampler.samples_avail > 0
    /\ \E i \in 1..Len(resampler.samples) : resampler.samples[i] # 0

\* C5: whenever get_out_frames (n) > 0, get_in_frames of that many output
\* frames is at most n.
C5_InOfOutAtMostIn ==
    Sound =>
        \A n \in 0..MaxIn :
            LET out == gst_audio_resampler_get_out_frames(resampler, n)
            IN out > 0 =>
                  gst_audio_resampler_get_in_frames(resampler, out) <= n

\* C6: reset puts the instance in the state of a newly created one:
\* samp_index, samp_phase and skip are 0, samples_avail is n_taps / 2 - 1
\* and the history is zero.
C6_ResetRestoresFresh ==
    (Sound /\ last.op = "reset") =>
        /\ resampler.samp_index = 0
        /\ resampler.samp_phase = 0
        /\ resampler.skip = 0
        /\ resampler.samples_avail = resampler.n_taps \div 2 - 1
        /\ HistoryZero(resampler)

\* C7: reset is idempotent: a second reset right after a reset leaves the
\* whole resampler state as it is.
C7_ResetIdempotent ==
    (Sound /\ last.op = "reset") =>
        LET again == gst_audio_resampler_reset(resampler)
        IN again.fault = "none" /\ again.r = resampler

\* reset ran on an instance with sample buffers and a filter of 4 taps or more
C7_Witness ==
    /\ Sound /\ last.op = "reset"
    /\ resampler.samples_len > 0
    /\ resampler.n_taps >= 4

\* an Update step: the call, and the instance before it
UpdateStep == alive /\ ncalls' = ncalls + 1 /\ last'.op = "update"

\* C8: an update called with in_rate <= 0 (out_rate <= 0) leaves the
\* instance's in_rate (out_rate) as it was before the call.
C8_UpdateKeepsRate ==
    [][UpdateStep =>
          /\ last'.in_rate <= 0 => resampler'.in_rate = resampler.in_rate
          /\ last'.out_rate <= 0 => resampler'.out_rate = resampler.out_rate]_vars

\* C9: an update with options == NULL keeps the stored options and computes
\* the filter from them; with options it stores a copy of them, and a later
\* change of the caller's structure leaves the resampler as it is.
C9_OptionsKeptOrCopied ==
    [][/\ (UpdateStep /\ last'.opt_null) =>
            /\ resampler'.options = resampler.options
            /\ (~resampler.options.null
                   /\ resampler.options.s.filter_mode # "absent")
                  => resampler'.filter_mode = resampler.options.s.filter_mode
       /\ (UpdateStep /\ ~last'.opt_null) =>
            /\ ~resampler'.options.null
            /\ ~resampler'.options.caller
            /\ resampler'.options.s = caller_options
       /\ caller_options' # caller_options => resampler' = resampler]_vars

\* the resampler holds options that the caller's structure no longer has,
\* and the last call was an update with options == NULL
C9_Witness ==
    /\ Sound
    /\ last.op = "update" /\ last.opt_null
    /\ ~resampler.options.null
    /\ resampler.options.s # caller_options

\* C10: new with a channels, in_rate or out_rate that is not positive
\* fails: no instance is created and no state changes, neither the
\* process-wide one nor that of an instance that exists.
C10_NewRejectsBadArgs ==
    [][(last'.op = "new"
          /\ (last'.channels <= 0 \/ last'.in_rate <= 0 \/ last'.out_rate <= 0))
         => /\ ~last'.ok
            /\ UNCHANGED <<init_gonce, resample_2, alive, resampler,
                           caller_options, fault>>]_vars

\* new failed while an instance existed
C10_Witness ==
    /\ alive
    /\ last.op = "new" /\ ~last.ok
    /\ last.channels <= 0

---------------------------------------------------------------------------
(* The caller's stream cut into calls *)

\* the frames first .. first + n - 1 of the caller's stream, as the in[] of
\* one call
InputSlice(first, n, channels, non_interleaved) ==
    IF non_interleaved
    THEN [null |-> FALSE,
          bufs |-> [c \in 1..channels |->
                       [i \in 1..n |-> InSample("data", first + i - 1, c - 1)]]]
    ELSE [null |-> FALSE,
          bufs |-> << [k \in 1..(n * channels) |->
                          InSample("data", first + (k - 1) \div channels,
                                   (k - 1) % channels)] >>]

\* a call with the next n frames of the stream, from frame `first`
ResampleSlice(r, first, n, out_frames) ==
    gst_audio_resampler_resample(r,
        InputSlice(first, n, r.channels, r.non_interleaved), n, out_frames)

\* a call of a frames is too short to start
TooShort(r, a) ==
    r.skip < a /\ r.samples_avail + a < r.n_taps + r.samp_index

\* the call u that followed a too-short call gave what the call v with all
\* the frames at once gives
SameAsOneCall(u, v) ==
    /\ u.fault = v.fault
    /\ u.written = v.written
    /\ u.out = v.out
    /\ u.r.samp_phase = v.r.samp_phase
    /\ u.r.samp_index = v.r.samp_index
    /\ u.r.samples_avail = v.r.samples_avail

\* the too-short call s of a frames on r ran no kernel and kept the frames
ShortKept(r, s, a) ==
    /\ s.fault = "none"
    /\ s.path = "short"
    /\ s.written = 0
    /\ s.out = <<>>
    /\ s.r.samp_phase = r.samp_phase
    /\ s.r.samples_avail = r.samples_avail + a

\* C11: a resample call that ends with too few samples to start runs no
\* kernel, writes nothing, leaves samp_phase and keeps its frames in the
\* history; the call that then brings the missing frames gives the output
\* of one call with all the frames.
C11_ShortCallKeepsFrames ==
    Sound =>
        \A a \in 1..2 :
            TooShort(resampler, a) =>
                /\ ShortKept(resampler, ResampleSlice(resampler, 0, a, 0), a)
                /\ \A b \in 1..(MaxLen - a - resampler.samples_avail) :
                      LET out == gst_audio_resampler_get_out_frames(
                                     resampler, a + b)
                      IN SameAsOneCall(
                             ResampleSlice(ResampleSlice(resampler, 0, a, 0).r,
                                           a, b, out),
                             ResampleSlice(resampler, 0, a + b, out))

\* a Resample step: the call, and the instance before it
ResampleStep == alive /\ ncalls' = ncalls + 1 /\ last'.op = "resample"

SkipNeverPending == Sound => resampler.skip = 0 /\ resampler.samp_index = 0

---------------------------------------------------------------------------
(* Rate changes in the middle of a stream: one mono NEAREST instance, made *)
(* with every pair of rates and with a max-phase-error of 0.1 (no option), *)
(* of 0 and of 1, fed in small calls and given new rates by update.         *)

MaxRateR == 6
MaxLenR == 6
MaxCallsR == 3

\* GST_AUDIO_RESAMPLER_OPT_MAX_PHASE_ERROR set to 0.0, and to 1.0
ExactOptions == [EmptyStructure EXCEPT !.mpe = <<0, 1>>]
GenerousOptions == [EmptyStructure EXCEPT !.mpe = <<1, 1>>]
RateOptionBags == {EmptyStructure, ExactOptions, GenerousOptions}

NewRates ==
    /\ ~alive
    /\ \E in_rate \in 1..MaxRateR, out_rate \in 1..MaxRateR,
          s \in RateOptionBags, have_2 \in BOOLEAN :
          /\ resample_2' = have_2
          /\ caller_options' = s
          /\ resampler' =
                gst_audio_resampler_new("nearest", FALSE, "S16", 1,
                    in_rate, out_rate,
                    [null |-> FALSE, caller |-> TRUE, s |-> s], have_2)
          /\ last' = [Call("new") EXCEPT !.channels = 1, !.in_rate = in_rate,
                                         !.out_rate = out_rate,
                                         !.opt_null = FALSE]
    /\ init_gonce' = 1
    /\ alive' = TRUE
    /\ ncalls' = 0
    /\ UNCHANGED fault

UsableRates == alive /\ fault = "none" /\ ncalls < MaxCallsR

UpdateRates ==
    /\ UsableRates
    /\ \E in_rate \in 1..MaxRateR, out_rate \in 1..MaxRateR :
          /\ Returned(gst_audio_resampler_update(resampler, in_rate, out_rate,
                                                 NullOptions, resample_2))
          /\ last' = [Call("update") EXCEPT !.in_rate = in_rate,
                                            !.out_rate = out_rate]
    /\ ncalls' = ncalls + 1
    /\ UNCHANGED <<init_gonce, resample_2, alive, caller_options>>

ResampleRates ==
    /\ UsableRates
    /\ \E in_frames \in 1..2 :
          /\ in_frames + resampler.samples_avail <= MaxLenR
          /\ \E out_frames \in
                 0..gst_audio_resampler_get_out_frames(resampler, in_frames) :
                Resampled(gst_audio_resampler_resample(resampler,
                              MakeInput("data", in_frames, 1, FALSE),
                              in_frames, out_frames),
                          in_frames, out_frames,
                          gst_audio_resampler_get_out_frames(resampler, in_frames))
    /\ ncalls' = ncalls + 1
    /\ UNCHANGED <<init_gonce, resample_2, alive, caller_options>>

RatesNext == NewRates \/ UpdateRates \/ ResampleRates

RatesSpec == Init /\ [][RatesNext]_vars

---------------------------------------------------------------------------
(* The divisor of the rates *)

Divides(d, n) == n % d = 0

\* the greatest common divisor of two positive rates
FullGcd(a, b) ==
    CHOOSE d \in 1..a :
        /\ Divides(d, a) /\ Divides(d, b)
        /\ \A e \in 1..a : Divides(e, a) /\ Divides(e, b) => e <= d

SmallestPrime(n) ==
    CHOOSE q \in 2..n : Divides(q, n) /\ \A e \in 2..(q - 1) : ~Divides(e, n)

\* |p/out - (p/g)/(out/g)| < mpe, with the integer division p/g
PhaseErrorBelow(p, out, g, mpe) ==
    Abs(p * (out \div g) - (p \div g) * out) * mpe[2]
        < mpe[1] * out * (out \div g)

\* g, or g without its smallest prime factors, one at a time, until the
\* phase error is below mpe
RECURSIVE ReducedDivisor(_, _, _, _)
ReducedDivisor(g, p, out, mpe) ==
    IF g = 1 \/ PhaseErrorBelow(p, out, g, mpe) THEN g
    ELSE ReducedDivisor(g \div SmallestPrime(g), p, out, mpe)

\* new, or update, has just returned
RateStep ==
    \/ UpdateStep
    \/ ~alive /\ alive' /\ last'.op = "new"

\* the phase of the instance before the call, in units of the requested
\* out_rate
ScaledPhase ==
    IF resampler.out_rate > 0
    THEN (resampler.samp_phase * last'.out_rate) \div resampler.out_rate
    ELSE 0

\* the call stored the requested rates and the phase divided by g
RatesStored(g) ==
    /\ resampler'.in_rate * g = last'.in_rate
    /\ resampler'.out_rate * g = last'.out_rate
    /\ resampler'.samp_phase = ScaledPhase \div g

\* C14, as stated: after new and after every update the stored rates are the
\* requested ones divided by g, where g is the full GCD when the phase is 0
\* or the phase error at the full GCD is below max_phase_error, and
\* otherwise the GCD without its smallest prime factors, one at a time, until
\* the phase error is below max_phase_error.
C14_RatesDividedAsStated ==
    [][RateStep =>
          RatesStored(
              IF ScaledPhase = 0
              THEN FullGcd(last'.in_rate, last'.out_rate)
              ELSE ReducedDivisor(FullGcd(last'.in_rate, last'.out_rate),
                                  ScaledPhase, last'.out_rate,
                                  GET_OPT_MAX_PHASE_ERROR(resampler.options)))]_vars

\* a max_phase_error below 1.0e-8
PhaseErrorExact(mpe) == mpe[1] * 100000000 < mpe[2]

\* C14, amended: with a max_phase_error below 1.0e-8 g is the greatest
\* common divisor of the two requested rates and the phase; with any other
\* max_phase_error it is the GCD of the rates, reduced by its smallest prime
\* factors until the phase error is below max_phase_error.
C14_RatesDivided ==
    [][RateStep =>
          LET full == FullGcd(last'.in_rate, last'.out_rate)
              mpe == GET_OPT_MAX_PHASE_ERROR(resampler.options)
          IN RatesStored(
                 IF PhaseErrorExact(mpe)
                 THEN (IF ScaledPhase = 0 THEN full
                       ELSE FullGcd(full, ScaledPhase))
                 ELSE ReducedDivisor(full, ScaledPhase, last'.out_rate, mpe))]_vars

\* update in the middle of a stream, with the default max_phase_error,
\* divided the rates 4:4 by 2, neither by their GCD nor by 1, and kept a phase
C14_Witness ==
    /\ Sound
    /\ last.op = "update"
    /\ GET_OPT_MAX_PHASE_ERROR(resampler.options) = <<1, 10>>
    /\ last.in_rate = 4 /\ last.out_rate = 4
    /\ resampler.in_rate = 2 /\ resampler.out_rate = 2
    /\ resampler.samp_phase = 1

---------------------------------------------------------------------------
(* The same ratio written with k times the rates *)

MaxRatio == 3
Multiples == {2, 3}

\* the instance r given the rates in:out
Configured(r, in_rate, out_rate) ==
    gst_audio_resampler_update(r, in_rate, out_rate, NullOptions, resample_2)

\* max_phase_error lets update divide in:out by their full GCD
GenerousFor(r, in_rate, out_rate) ==
    LET p == IF r.out_rate > 0
             THEN (r.samp_phase * out_rate) \div r.out_rate ELSE 0
        mpe == GET_OPT_MAX_PHASE_ERROR(r.options)
    IN \/ p = 0
       \/ /\ ~PhaseErrorExact(mpe)
          /\ PhaseErrorBelow(p, out_rate, FullGcd(in_rate, out_rate), mpe)

\* what the next resample call, with n more frames of the stream and all
\* the output get_out_frames allows, returns
NextOutput(r, n) ==
    LET w == ResampleSlice(r, 0, n, gst_audio_resampler_get_out_frames(r, n))
    IN <<w.fault, w.written, w.out, w.r.samp_phase, w.r.samp_index,
         w.r.samples_avail>>

\* two instances a caller cannot tell apart
SameResampling(u, v) ==
    /\ u.fault = v.fault
    /\ u.r.samp_inc = v.r.samp_inc /\ u.r.samp_frac = v.r.samp_frac
    /\ u.r.samp_phase = v.r.samp_phase /\ u.r.samp_index = v.r.samp_index
    /\ u.r.samples_avail = v.r.samples_avail /\ u.r.n_taps = v.r.n_taps
    /\ \A n \in 0..2 :
          /\ gst_audio_resampler_get_out_frames(u.r, n)
                = gst_audio_resampler_get_out_frames(v.r, n)
          /\ gst_audio_resampler_get_in_frames(u.r, n)
                = gst_audio_resampler_get_in_frames(v.r, n)
    /\ u.fault = "none" /\ u.r.samples_avail + 2 <= MaxLenR =>
          NextOutput(u.r, 2) = NextOutput(v.r, 2)

\* new with the rates in:out and the caller's options
Created(in_rate, out_rate) ==
    Ok(gst_audio_resampler_new("nearest", FALSE, "S16", 1, in_rate, out_rate,
           [null |-> FALSE, caller |-> TRUE, s |-> caller_options], FALSE))

\* C15: an instance configured with the rates k*a : k*b cannot be told from
\* one configured with a : b, whether by new or by update before a further
\* call of a stream, when max_phase_error lets the full GCD be taken: same samp_inc,
\* samp_frac, samp_phase, samp_index, samples_avail, n_taps, same
\* get_out_frames and get_in_frames, same output of the next resample call.
C15_SameRatioSameResampling ==
    \A a \in 1..MaxRatio, b \in 1..MaxRatio, k \in Multiples :
        /\ ~alive => SameResampling(Created(k * a, k * b), Created(a, b))
        /\ (UsableRates /\ GenerousFor(resampler, a, b)
                        /\ GenerousFor(resampler, k * a, k * b)) =>
              SameResampling(Configured(resampler, k * a, k * b),
                             Configured(resampler, a, b))

\* in the middle of a stream, with a phase, 2:4 and 1:2 can both be divided
\* by their full GCD, a phase is left, and the next call writes output
C15_Witness ==
    /\ UsableRates
    /\ resampler.samp_phase > 0
    /\ GenerousFor(resampler, 1, 2) /\ GenerousFor(resampler, 2, 4)
    /\ Configured(resampler, 2, 4).r.samp_phase > 0
    /\ Configured(resampler, 2, 4).r.samples_avail + 2 <= MaxLenR
    /\ NextOutput(Configured(resampler, 2, 4).r, 2)[2] > 0

---------------------------------------------------------------------------
(* Silence *)

\* resample with in == NULL ("null"), or with buffers of in_frames frames
\* that are all 0 ("zeros"), and all the output get_out_frames allows
ResampleKind(r, kind, in_frames) ==
    gst_audio_resampler_resample(r,
        MakeInput(kind, in_frames, r.channels, r.non_interleaved), in_frames,
        gst_audio_resampler_get_out_frames(r, in_frames))

\* C16: resample with in == NULL and in_frames = n leaves the instance and
\* the output as a call with n frames of zeros does, on the per-channel
\* deinterleave path and on the bulk-copy path.
C16_NullIsSilence ==
    Usable =>
        \A n \in InFrames :
            n + resampler.samples_avail <= MaxLen =>
                ResampleKind(resampler, "null", n)
                    = ResampleKind(resampler, "zeros", n)

---------------------------------------------------------------------------
(* Latency *)

\* the instance was just created, or just reset
Fresh == Sound /\ last.op \in {"new", "reset"} /\ last.ok

\* C17: get_max_latency returns n_taps / 2, and on an instance just created
\* or reset get_max_latency () frames of input are enough for
\* get_out_frames to report at least one output frame.
C17_LatencyFramesGiveOutput ==
    Fresh =>
        /\ gst_audio_resampler_get_max_latency(resampler)
              = resampler.n_taps \div 2
        /\ gst_audio_resampler_get_out_frames(resampler,
               gst_audio_resampler_get_max_latency(resampler)) >= 1

---------------------------------------------------------------------------
(* Fixed-point coefficients: make_coeff_gint16_cubic.  gint16 and gint32   *)
(* keep their width; >> of a negative value is the arithmetic shift and a  *)
(* value stored in a gint16 is reduced modulo 2^16, as the builds do.      *)

PRECISION_S16 == 15

\* a / b of C, which truncates towards zero
IntDiv(a, b) == IF a >= 0 \/ a % b = 0 THEN a \div b ELSE a \div b + 1

\* v >> n
Sar(v, n) == v \div (2 ^ n)

\* the value a gint16 holds after v is stored in it
ToInt16(v) == ((v + 32768) % 65536) - 32768

InInt16(v) == v >= -32768 /\ v <= 32767

\* the quotient (frac * 2^n) / out_rate for 0 <= frac < out_rate, by long
\* division: q and rem after n more bits
RECURSIVE ShiftedQuotient(_, _, _, _)
ShiftedQuotient(rem, q, n, out_rate) ==
    IF n = 0 THEN q
    ELSE IF 2 * rem >= out_rate
    THEN ShiftedQuotient(2 * rem - out_rate, 2 * q + 1, n - 1, out_rate)
    ELSE ShiftedQuotient(2 * rem, 2 * q, n - 1, out_rate)

\* (gint32) frac << 15 does not fit a gint32
ShiftOverflows(frac) == frac > 65535

\* the gint32 left of frac << 15 when the shift drops the high bits
WrappedShift(frac) ==
    LET f == frac % 131072
    IN IF f >= 65536 THEN (f - 131072) * 32768 ELSE f * 32768

\* type x = ((type2) frac << prec) / out_rate.  When the shift overflows
\* the behaviour is undefined: a build that shifts in 32 bits divides the
\* wrapped value, a build that keeps the product in a wider register
\* divides the true one.
make_coeff_x(frac, out_rate) ==
    IF ~ShiftOverflows(frac)
    THEN {ToInt16((frac * 32768) \div out_rate)}
    ELSE {ToInt16(IntDiv(WrappedShift(frac), out_rate)),
          ToInt16(ShiftedQuotient(frac, 0, PRECISION_S16, out_rate))}

\* icoeff[0], [1], [3] as computed, before they are stored
cubic_outer(x, x2, x3) ==
    << Sar(IntDiv((x3 - x) * 32768, 6), PRECISION_S16),
       x + Sar(x2 - x3, 1),
       - Sar(IntDiv(x * 32768, 3), PRECISION_S16) + Sar(x2, 1)
            - Sar(IntDiv(x3 * 32768, 6), PRECISION_S16) >>

\* the four weights as computed (wide) and as stored (icoeff)
cubic_stored(w) ==
    LET one == 2 ^ PRECISION_S16 - 1
        c2 == one - ToInt16(w[1]) - ToInt16(w[2]) - ToInt16(w[3])
    IN [wide |-> <<w[1], w[2], c2, w[3]>>,
        icoeff |-> <<ToInt16(w[1]), ToInt16(w[2]), ToInt16(c2),
                     ToInt16(w[3])>>]

\* make_coeff_gint16_cubic (frac, out_rate, icoeff), from x on
make_coeff_gint16_cubic(x) ==
    LET x2 == ToInt16(Sar(x * x, PRECISION_S16))
        x3 == ToInt16(Sar(x2 * x, PRECISION_S16))
    IN cubic_stored(cubic_outer(x, x2, x3))

\* the out_rate and frac the function is applied to: every x of a 15 bit
\* fraction, and rates above 65536 that are sampled
CubicOutRates == {32768, 96000, 120001}
CubicFracs(out_rate) ==
    IF out_rate = 32768 THEN 0..32767
    ELSE {f \in 0..(out_rate - 1) : f % 997 = 0 \/ f = out_rate - 1}

MakeCoeffCubic ==
    /\ last.op = "none"
    /\ \E out_rate \in CubicOutRates :
          \E frac \in CubicFracs(out_rate) :
             \E x \in make_coeff_x(frac, out_rate) :
                last' = [op |-> "make_coeff_gint16_cubic", frac |-> frac,
                         out_rate |-> out_rate, x |-> x,
                         overflow |-> ShiftOverflows(frac),
                         c |-> make_coeff_gint16_cubic(x)]
    /\ UNCHANGED <<init_gonce, resample_2, alive, resampler, caller_options,
                   fault, ncalls>>

---------------------------------------------------------------------------
(* convert_taps_gint16: the search of the rounding bias.  The quotients   *)
(* tmpcoeff[j] * multiplier / weight and the offsets are exact numbers: a *)
(* whole part and a fraction of [0, 1) in units of 2^-34, which a double   *)
(* holds exactly at the size of a gint16 tap.  A fraction, like an offset, *)
(* is <<hi, lo>> = hi * 2^17 + lo units.                                   *)

QNorm(hi, lo) == <<hi + lo \div (2 ^ 17), lo % (2 ^ 17)>>
QAdd(a, b) == QNorm(a[1] + b[1], a[2] + b[2])
QSub(a, b) == QNorm(a[1] - b[1], a[2] - b[2])
\* the step of the search without its division by 2
QWhole(a) == a
QHalve(a) == <<a[1] \div 2, (a[2] + (a[1] % 2) * (2 ^ 17)) \div 2>>
QLess(a, b) == a[1] < b[1] \/ (a[1] = b[1] /\ a[2] < b[2])
QZero == <<0, 0>>
QOne == <<2 ^ 17, 0>>
\* k / 8 + n units
QEighths(k, n) == QNorm(k * (2 ^ 14), n)

\* floor (offset + tmpcoeff[j] * multiplier / weight)
floor_tap(offset, q) ==
    IF QLess(QAdd(offset, q.frac), QOne) THEN q.whole ELSE q.whole + 1

\* for (j = 0; j < n_taps; j++) sum += floor (...)
RECURSIVE floor_sum(_, _, _)
floor_sum(offset, row, j) ==
    IF j = 0 THEN 0
    ELSE floor_sum(offset, row, j - 1) + floor_tap(offset, row[j])

\* the for (i = 0; i < 32; i++) loop from iteration i on; probes are the
\* offsets the sum was taken at
RECURSIVE dc_search(_, _, _, _, _, _)
dc_search(row, i, l_offset, h_offset, offset, probes) ==
    LET one == 2 ^ PRECISION_S16 - 1
        sum == floor_sum(offset, row, Len(row))
        tried == Append(probes, offset)
    IN IF i = 32
       THEN [offset |-> offset, exact |-> FALSE, probes |-> probes]
       ELSE IF sum = one
       THEN [offset |-> offset, exact |-> TRUE, probes |-> tried]
       ELSE IF l_offset = h_offset
       THEN [offset |-> offset, exact |-> FALSE, probes |-> tried]
       ELSE IF sum < one
       THEN LET l == IF QLess(l_offset, offset) THEN offset ELSE l_offset
            IN dc_search(row, i + 1, l, h_offset,
                         QAdd(offset, QHalve(QSub(h_offset, l))), tried)
       ELSE LET h == IF QLess(offset, h_offset) THEN offset ELSE h_offset
            IN dc_search(row, i + 1, l_offset, h,
                         QSub(offset, QHalve(QSub(h, l_offset))), tried)

\* the row written with the offset the search ended with
taps_written(row, found) ==
    [found EXCEPT !.offset = found.offset] @@
    [taps |-> [j \in 1..Len(row) |-> floor_tap(found.offset, row[j])]]

convert_taps_gint16(row) ==
    taps_written(row, dc_search(row, 0, QZero, QOne, QEighths(4, 0), <<>>))

\* the fractions of the quotients: eighths, and fractions a few units
\* away from them
TapFracs ==
    { QEighths(0, 0), QEighths(1, 0), QEighths(2, 0), QEighths(2, -5),
      QEighths(3, 0), QEighths(3, 2), QEighths(3, 3), QEighths(4, 0),
      QEighths(4, 2), QEighths(5, 0), QEighths(7, 0), QEighths(8, -3) }

\* rows of three quotients: the whole parts sum to 32767 less 0, 1, 2 or 3
TapWholes == { <<10923, 10922, 10922>>, <<10922, 10922, 10922>>,
               <<10922, 10922, 10921>>, <<10922, 10921, 10921>> }

TapRows ==
    { [j \in 1..3 |-> [whole |-> w[j], frac |-> f[j]]] :
         w \in TapWholes, f \in TapFracs \X TapFracs \X TapFracs }

ConvertTaps ==
    /\ last.op = "none"
    /\ \E row \in TapRows :
          last' = [op |-> "convert_taps_gint16", row |-> row,
                   c |-> convert_taps_gint16(row)]
    /\ UNCHANGED <<init_gonce, resample_2, alive, resampler, caller_options,
                   fault, ncalls>>

---------------------------------------------------------------------------
(* The gint16 samples of NEAREST: fill_taps, get_taps_gint16_none and     *)
(* inner_product_gint16_none_1_c                                           *)

\* get_nearest_tap (x + i) for x = 1.0 - n_taps / 2 - samp_phase / out_rate:
\* 1 when |x + i| < 0.5
get_nearest_tap(r, samp_phase, i) ==
    IF 2 * Abs(r.out_rate * (1 - r.n_taps \div 2 + i) - samp_phase) < r.out_rate
    THEN 1 ELSE 0

\* tmpcoeff after fill_taps for NEAREST, with oversample 1
fill_taps_nearest(r, samp_phase) ==
    [j \in 1..r.n_taps |-> get_nearest_tap(r, samp_phase, j - 1)]

\* the row of get_taps_gint16_none for a phase whose weight is 1: the
\* quotients tmpcoeff[j] * 32767 / 1.0 are whole
nearest_taps(r, samp_phase) ==
    convert_taps_gint16(
        [j \in 1..r.n_taps |->
            [whole |-> fill_taps_nearest(r, samp_phase)[j]
                          * (2 ^ PRECISION_S16 - 1),
             frac |-> QZero]]).taps

\* res after the loop res += (type2) a[i] * (type2) b[i]
RECURSIVE inner_sum(_, _, _)
inner_sum(a, b, len) ==
    IF len = 0 THEN 0 ELSE inner_sum(a, b, len - 1) + a[len] * b[len]

\* CLAMP (res, -(limit), (limit) - 1) with limit 1L << 15
clamp_gint16(res) == Max(-32768, Min(res, 32767))

inner_product_gint16_none_1_c(a, b, len) ==
    clamp_gint16(Sar(inner_sum(a, b, len) + 2 ^ (PRECISION_S16 - 1),
                     PRECISION_S16))

\* the frames written by resample_gint16_none_1_c, from the windows
nearest_output(u) ==
    [k \in 1..Len(u.out) |->
        [ch \in 1..Len(u.out[k]) |->
            inner_product_gint16_none_1_c(u.out[k][ch].win,
                nearest_taps(u.r, u.out[k][ch].phase), u.r.n_taps)]]

\* 16-bit sample values: the ends of the range, the values about a half and
\* about zero, and every 129th value between
NearestValues ==
    {s \in -32768..32767 : \/ s % 129 = 0
                           \/ Abs(s) <= 2 \/ Abs(s) >= 32766
                           \/ (Abs(s) >= 16382 /\ Abs(s) <= 16386)}

\* six interleaved stereo frames made of s and its complement -1 - s
NearestFrames(s) ==
    << <<s, -1 - s>>, <<-1 - s, s>>, <<-1 - s, s>>,
       <<s, -1 - s>>, <<s, s>>, <<-1 - s, -1 - s>> >>

NearestInput(s) ==
    [null |-> FALSE,
     bufs |-> << [k \in 1..12 |->
                     NearestFrames(s)[((k - 1) \div 2) + 1][((k - 1) % 2) + 1]] >>]

\* new (NEAREST, no flag, S16, 2 channels, 44100, 22050, NULL) on a build
\* or CPU without the two-channel functions
NewNearest ==
    /\ ~alive /\ last.op = "none"
    /\ resampler' = gst_audio_resampler_new("nearest", FALSE, "S16", 2,
                                            44100, 22050, NullOptions, FALSE)
    /\ last' = [Call("new") EXCEPT !.channels = 2, !.in_rate = 44100,
                                   !.out_rate = 22050]
    /\ init_gonce' = 1
    /\ alive' = TRUE
    /\ resample_2' = FALSE
    /\ UNCHANGED <<caller_options, fault, ncalls>>

\* the output of a resample call as numbers
ResampledNearest(u, s) ==
    /\ Returned(u)
    /\ last' = [op |-> "resample_nearest", s |-> s, path |-> u.path,
                written |-> u.written,
                frames |-> IF u.fault = "none" THEN nearest_output(u)
                           ELSE <<>>]

\* the first resample call: six frames, and all the output they allow
ResampleNearest ==
    /\ alive /\ last.op = "new"
    /\ \E s \in NearestValues :
          ResampledNearest(
              gst_audio_resampler_resample(resampler, NearestInput(s), 6,
                  gst_audio_resampler_get_out_frames(resampler, 6)), s)
    /\ ncalls' = ncalls + 1
    /\ UNCHANGED <<init_gonce, resample_2, alive, caller_options>>

FixedNext == MakeCoeffCubic \/ ConvertTaps \/ NewNearest \/ ResampleNearest

FixedSpec == Init /\ [][FixedNext]_vars

\* the sum of the four weights
WeightSum(w) == w[1] + w[2] + w[3] + w[4]

\* C18: the four weights of make_coeff_gint16_cubic sum to (1 << 15) - 1
\* for every out_rate > 0 and frac in [0, out_rate), and each of them is
\* representable: none wraps when it is stored, icoeff[2] included.
C18_CubicWeightsSumToOne ==
    last.op = "make_coeff_gint16_cubic" =>
        /\ WeightSum(last.c.icoeff) = 2 ^ PRECISION_S16 - 1
        /\ \A k \in 1..4 : InInt16(last.c.wide[k])

\* the sum of a row of taps
RECURSIVE RowSum(_, _)
RowSum(taps, j) == IF j = 0 THEN 0 ELSE RowSum(taps, j - 1) + taps[j]

\* the offsets at which the floored sum of the row changes, 0 and 1
Thresholds(row) ==
    {QZero, QOne} \cup {QSub(QOne, row[j].frac) : j \in 1..Len(row)}

\* some offset of [0, 1] gives the floored sum (1 << 15) - 1
Feasible(row) ==
    \E o \in Thresholds(row) :
        floor_sum(o, row, Len(row)) = 2 ^ PRECISION_S16 - 1

InUnit(o) == ~QLess(o, QZero) /\ ~QLess(QOne, o)

\* the search took at most 32 sums, every offset stayed in [0, 1], and the
\* row is written with the last offset
SearchBounded(c, row) ==
    /\ Len(c.probes) <= 32
    /\ InUnit(c.offset) /\ \A k \in 1..Len(c.probes) : InUnit(c.probes[k])
    /\ c.taps = [j \in 1..Len(row) |-> floor_tap(c.offset, row[j])]

GridAbove(o) ==
    IF o = QZero THEN <<0, 4>>
    ELSE QNorm(o[1], ((o[2] + 3) \div 4) * 4)

\* some multiple of 2^-32 inside (0, 1) gives the floored sum (1 << 15) - 1
GridFeasible(row) ==
    \E o \in Thresholds(row) :
        /\ QLess(GridAbove(o), QOne)
        /\ floor_sum(GridAbove(o), row, Len(row)) = 2 ^ PRECISION_S16 - 1

C20_NearestCopiesSamples ==
    last.op = "resample_nearest" =>
        /\ last.written = 2 /\ Len(last.frames) = 2
        /\ \A k \in 1..2 :
              last.frames[k] = NearestFrames(last.s)[2 * k - 1]

---------------------------------------------------------------------------
(* The filter layout: one mono S16 instance of every method, made with     *)
(* options == NULL at every pair of rates, and given new rates and new     *)
(* options (n-taps, filter-mode, filter-interpolation, filter-oversample)  *)
(* by update.                                                              *)

MaxRateT == 3
MaxCallsT == 2

\* the option structures given to update
TapOptionBags ==
    { EmptyStructure,
      [EmptyStructure EXCEPT !.n_taps = 24, !.filter_mode = "full"],
      [EmptyStructure EXCEPT !.n_taps = 16, !.filter_mode = "interpolated",
                             !.filter_interpolation = "cubic",
                             !.oversample = 1],
      [EmptyStructure EXCEPT !.filter_mode = "interpolated",
                             !.filter_interpolation = "linear",
                             !.oversample = 2] }

\* the options argument of update: NULL, or one of the structures
TapOptionArgs ==
    {NullOptions} \cup
    {[null |-> FALSE, caller |-> TRUE, s |-> s] : s \in TapOptionBags}

NewTaps ==
    /\ ~alive
    /\ \E method \in Methods, in_rate \in 1..MaxRateT, out_rate \in 1..MaxRateT :
          /\ resampler' =
                gst_audio_resampler_new(method, FALSE, "S16", 1,
                    in_rate, out_rate, NullOptions, FALSE)
          /\ last' = [Call("new") EXCEPT !.channels = 1, !.in_rate = in_rate,
                                         !.out_rate = out_rate]
    /\ resample_2' = FALSE
    /\ init_gonce' = 1
    /\ alive' = TRUE
    /\ ncalls' = 0
    /\ UNCHANGED <<caller_options, fault>>

UsableTaps == alive /\ fault = "none" /\ ncalls < MaxCallsT

UpdateTaps ==
    /\ UsableTaps
    /\ \E in_rate \in 0..MaxRateT, out_rate \in 0..MaxRateT,
          options \in TapOptionArgs :
          /\ Returned(gst_audio_resampler_update(resampler, in_rate, out_rate,
                                                 options, resample_2))
          /\ caller_options' = IF options.null THEN caller_options
                               ELSE options.s
          /\ last' = [Call("update") EXCEPT !.in_rate = in_rate,
                                            !.out_rate = out_rate,
                                            !.opt_null = options.null]
    /\ ncalls' = ncalls + 1
    /\ UNCHANGED <<init_gonce, resample_2, alive>>

TapsNext == NewTaps \/ UpdateTaps

TapsSpec == Init /\ [][TapsNext]_vars

\* C21: after every new and every update, for every method, every pair of
\* positive rates and the default options, n_taps is even, and it is a
\* multiple of 8 whenever it is greater than 4.
C21_TapsEven ==
    (Sound /\ last.op \in {"new", "update"} /\ resampler.options.null) =>
        /\ resampler.n_taps % 2 = 0
        /\ resampler.n_taps > 4 => resampler.n_taps % 8 = 0

---------------------------------------------------------------------------
(* The kernel's account of the frames it used *)

\* samp_index where the kernel of the call `after` stopped, given the
\* samp_index it started from
FinalIndex(after, start) ==
    IF after.written = 0 THEN start ELSE after.indexes[after.written]

\* the `consumed` reported by the kernel of a Resample step
Consumed ==
    FinalIndex(last', resampler.samp_index + resampler.skip)
        - (resampler.samp_index + resampler.skip)

\* a Resample step whose kernel ran
KernelStep == ResampleStep /\ last'.path = "kernel"

\* C22: a resample call that starts with phase p0 and produces k frames
\* ends with samp_phase = (p0 + k * in_rate) mod out_rate and its kernel
\* reports consumed = (p0 + k * in_rate) div out_rate, which is
\* get_in_frames (k) just before the call; samp_frac < out_rate, so one
\* carry per output sample keeps the phase below out_rate.
C22_KernelAdvance ==
    [][KernelStep =>
          LET k == last'.written
              total == resampler.samp_phase + k * resampler.in_rate
          IN /\ resampler'.samp_phase = total % resampler.out_rate
             /\ Consumed = total \div resampler.out_rate
             /\ Consumed = gst_audio_resampler_get_in_frames(resampler, k)
             /\ resampler.samp_frac < resampler.out_rate
             /\ \A j \in 1..k : last'.phases[j] < resampler.out_rate]_vars

\* a call wrote several frames from rates that do not divide each other,
\* the phase wrapped on the way and ended above 0
C22_Witness ==
    /\ Sound /\ last.op = "resample" /\ last.path = "kernel"
    /\ last.written >= 3
    /\ resampler.samp_frac > 0
    /\ resampler.samp_phase > 0
    /\ \E j \in 1..(last.written - 1) : last.phases[j + 1] < last.phases[j]

---------------------------------------------------------------------------
(* A caller that asks for more output than its input allows: one mono S16  *)
(* NEAREST instance at every pair of rates, fed one or two frames a call   *)
(* and asked for up to MaxOver frames more than get_out_frames answers.    *)

MaxRateO == 3
MaxLenO == 6
MaxCallsO == 3
MaxOver == 2

NewOver ==
    /\ ~alive
    /\ \E in_rate \in 1..MaxRateO, out_rate \in 1..MaxRateO :
          /\ resampler' =
                gst_audio_resampler_new("nearest", FALSE, "S16", 1,
                    in_rate, out_rate, NullOptions, FALSE)
          /\ last' = [Call("new") EXCEPT !.channels = 1, !.in_rate = in_rate,
                                         !.out_rate = out_rate]
    /\ resample_2' = FALSE
    /\ init_gonce' = 1
    /\ alive' = TRUE
    /\ ncalls' = 0
    /\ UNCHANGED <<caller_options, fault>>

UsableOver == alive /\ fault = "none" /\ ncalls < MaxCallsO

ResampleOver ==
    /\ UsableOver
    /\ \E in_frames \in 1..2 :
          /\ in_frames + resampler.samples_avail <= MaxLenO
          /\ \E out_frames \in
                 0..(gst_audio_resampler_get_out_frames(resampler, in_frames)
                        + MaxOver) :
                Resampled(gst_audio_resampler_resample(resampler,
                              MakeInput("data", in_frames, 1, FALSE),
                              in_frames, out_frames),
                          in_frames, out_frames,
                          gst_audio_resampler_get_out_frames(resampler, in_frames))
    /\ ncalls' = ncalls + 1
    /\ UNCHANGED <<init_gonce, resample_2, alive, caller_options>>

OverNext == NewOver \/ ResampleOver

OverSpec == Init /\ [][OverNext]_vars

\* samples_avail after the input of a Resample step was appended
Appended == resampler.samples_avail + last'.in_frames

\* a Resample step that reached the call of the bound resample function
KernelCalled ==
    /\ ResampleStep
    /\ resampler.skip < last'.in_frames
    /\ Appended >= resampler.n_taps + resampler.samp_index + resampler.skip
    /\ Len(last'.indexes) = last'.out_frames

\* `consumed` of a step whose kernel was asked for out_frames samples
Reported ==
    (IF last'.out_frames = 0 THEN resampler.samp_index + resampler.skip
     ELSE last'.indexes[last'.out_frames])
        - (resampler.samp_index + resampler.skip)

\* C23: after a resample call whose kernel ran with avail = samples_avail
\* (input appended) and reported consumed: if consumed > avail then
\* samples_avail = 0 and skip = consumed - avail, otherwise samples_avail =
\* avail - consumed and skip is not increased; samp_index is 0 either way.
C23_ConsumedAccounted ==
    [][KernelCalled =>
          /\ fault' = "none"
          /\ resampler'.samp_index = 0
          /\ IF Reported > Appended
             THEN /\ resampler'.samples_avail = 0
                  /\ resampler'.skip = Reported - Appended
             ELSE /\ resampler'.samples_avail = Appended - Reported
                  /\ resampler'.skip <= resampler.skip]_vars

\* where the window of output sample k of a Resample step starts
WindowStart(k) ==
    IF k = 1 THEN resampler.samp_index + resampler.skip
    ELSE last'.indexes[k - 1]

\* C24: when out_frames <= get_out_frames (in_frames) before a resample
\* call, the window of every output sample starts at an index i >= 0 with
\* i + n_taps <= samples_avail (input appended), and the final samp_index
\* is at most samples_avail: the length in_len - samp_index of the history
\* memmove does not go below zero.
C24_WindowsInside ==
    [][(KernelCalled /\ last'.out_frames <= last'.get_out) =>
          /\ \A k \in 1..last'.out_frames :
                /\ WindowStart(k) >= 0
                /\ WindowStart(k) + resampler.n_taps <= Appended
          /\ Reported + resampler.samp_index + resampler.skip <= Appended]_vars

\* a call was given all the output its input allowed, two frames or more,
\* and left less than one window of history
C24_Witness ==
    /\ Sound /\ last.op = "resample" /\ last.path = "kernel"
    /\ last.written >= 2
    /\ last.written = last.get_out
    /\ resampler.samples_avail < resampler.n_taps

\* C25: with every resample call keeping out_frames <= get_out_frames
\* (in_frames) and n_taps >= 2, after any sequence of new, resample, reset
\* and update the kernel never consumes more frames than samples_avail, so
\* no skip is stored: skip and samp_index are 0 between public calls.
C25_NoDeferredSkip ==
    [][/\ (alive' /\ fault' = "none" /\ resampler'.n_taps >= 2) =>
             /\ resampler'.skip = 0
             /\ resampler'.samp_index = 0
       /\ (KernelCalled /\ resampler.n_taps >= 2) =>
             Reported <= Appended]_vars

\* the third call on an instance that takes two input frames or more for
\* an output frame: its kernel consumed frames
C25_Witness ==
    /\ Sound /\ last.op = "resample" /\ last.path = "kernel"
    /\ ncalls = MaxCalls
    /\ resampler.samp_inc >= 2
    /\ last.written >= 1
    /\ last.indexes[last.written] >= 2

\* the frames the kernel of a Resample step shifted out of every buffer:
\* the samp_index it stopped at
ShiftedOut == Reported + resampler.samp_index + resampler.skip

---------------------------------------------------------------------------
(* One call against two calls with the same frames *)

\* the frames held in every block of r
History(r) ==
    [c \in 1..r.blocks |->
        [j \in 1..(r.samples_avail * r.inc) |-> r.samples[r.sbuf[c].off + j]]]

\* a call with the frames first .. first + n - 1 of the stream that asks
\* for exactly get_out_frames (n) output frames
ResampleAll(r, first, n) ==
    ResampleSlice(r, first, n, gst_audio_resampler_get_out_frames(r, n))

\* two calls a, b gave what the one call c gave
SameAsChunks(a, b, c) ==
    /\ a.fault = "none" /\ b.fault = "none" /\ c.fault = "none"
    /\ a.written + b.written = c.written
    /\ b.r.samp_phase = c.r.samp_phase
    /\ b.r.samp_index = c.r.samp_index
    /\ b.r.skip = c.r.skip
    /\ b.r.samples_avail = c.r.samples_avail
    /\ History(b.r) = History(c.r)

\* the first of the two calls, given to the comparison with the second
ChunksAgree(r, a, n1, n2) ==
    SameAsChunks(a, ResampleAll(a.r, n1, n2), ResampleAll(r, 0, n1 + n2))

\* the sizes of the two chunks
Chunks == {1, 2}

\* C27: from the same state and with no update in between, n1 frames and
\* then n2 frames, each call asking for exactly get_out_frames, give the
\* same total of output frames and the same final samp_phase, samp_index,
\* skip, samples_avail and history as n1 + n2 frames in one call asking
\* for get_out_frames (n1 + n2).
C27_ChunkingDoesNotMatter ==
    Usable =>
        \A n1 \in Chunks, n2 \in Chunks :
            (n1 + n2 + resampler.samples_avail <= MaxLen) =>
                ChunksAgree(resampler, ResampleAll(resampler, 0, n1), n1, n2)

---------------------------------------------------------------------------
(* The history across an update *)

\* diff of an Update step: half of the change of n_taps
TapsDiff == CDiv(resampler'.n_taps - resampler.n_taps, 2)

\* the frames an Update step moves in every block
MovedFrames ==
    IF TapsDiff < 0 THEN resampler.samples_avail + TapsDiff
    ELSE resampler.samples_avail

\* C28: an update on an instance whose n_taps was > 0 shifts the history
\* by diff = (new n_taps - old n_taps) / 2 frames and adds diff to
\* samples_avail; the new samples_avail is >= 0, the moved length is not
\* negative and the destination samp_index + diff + samples_avail stays
\* within the samples_len frames of the buffers; right after new or reset
\* an update leaves samples_avail = new n_taps / 2 - 1.
C28_UpdateShiftsHistory ==
    [][(UpdateStep /\ resampler.n_taps > 0) =>
          /\ fault' = "none"
          /\ resampler'.samples_avail = resampler.samples_avail + TapsDiff
          /\ resampler'.samples_avail >= 0
          /\ MovedFrames >= 0
          /\ resampler.samp_index + TapsDiff + resampler.samples_avail
                <= resampler'.samples_len
          /\ (last.op \in {"new", "reset"} /\ last.ok) =>
                resampler'.samples_avail = resampler'.n_taps \div 2 - 1]_vars

---------------------------------------------------------------------------
(* The coefficient rows *)

\* coefficients per tap in a row: 1 in FULL mode, 2 or 4 when interpolating
RowMult(r) ==
    CASE r.filter_interpolation = "none" -> 1
      [] r.filter_interpolation = "cubic" -> 4
      [] OTHER -> 2

\* rows in use: out_rate in FULL mode, oversample when interpolating
RowCount(r) ==
    IF r.filter_interpolation = "none" THEN r.out_rate ELSE r.oversample

\* the bytes of the block from the aligned pointer coeff on
BlockBytes(r) == r.coeffmem - (ALIGN - 1)

\* C29: after any sequence of new and update (rates, n-taps, filter-mode,
\* filter-interpolation, filter-oversample), also when the reallocation is
\* skipped, every coefficient row in use fits its stride and the block:
\* bps * mult * n_taps <= cstride and n_phases * cstride <= the allocated
\* size, so no row overlaps the next or runs past the block.
C29_RowsFit ==
    (Sound /\ last.op \in {"new", "update"}) =>
        /\ resampler.bps * RowMult(resampler) * resampler.n_taps
              <= resampler.cstride
        /\ RowCount(resampler) * resampler.cstride <= BlockBytes(resampler)


---------------------------------------------------------------------------
(* The memo table of FULL mode *)

\* FULL mode: get_taps_<type>_none serves the rows through resampler->taps
FullMode(r) == r.filter_interpolation = "none"

\* what a row of coefficients is computed from, and where the rows lie
RowParams(r) ==
    <<r.method, r.format, r.n_taps, r.in_rate, r.out_rate, r.options,
      r.filter_interpolation, r.cstride>>

\* an output sample of the resample call of this step used phase p
PhaseUsed(p) ==
    \E k \in 1..Len(last'.phases) :
       p = IF k = 1 THEN resampler.samp_phase ELSE last'.phases[k - 1]

\* the memo table is empty
MemoEmpty(r) == Len(r.taps) = r.out_rate /\ \A p \in 1..r.out_rate : r.taps[p] = -1

\* C30, as stated: at any time each non-empty memo entry p points to row p
\* computed with the current n_taps, rates and options: an update that
\* changes what the rows are computed from leaves no entry of the filter
\* before it.
C30_MemoTableAsStated ==
    [][(UpdateStep /\ fault' = "none"
           /\ RowParams(resampler') # RowParams(resampler)) =>
          \A p \in 1..Len(resampler'.taps) : resampler'.taps[p] = -1]_vars

\* C30, amended: in FULL mode the row of a phase is entered in the memo
\* table by the first output sample that uses the phase after an update,
\* and later uses leave the entry as it is; new and every update that
\* selects FULL mode leave the whole table empty; nothing but an update
\* changes n_taps, the rates, the options or the stride, so in FULL mode
\* each non-empty entry p is row p of the current filter.
C30_MemoTable ==
    [][/\ ((UpdateStep \/ ~alive) /\ alive' /\ fault' = "none"
              /\ FullMode(resampler')) => MemoEmpty(resampler')
       /\ (ResampleStep /\ fault' = "none" /\ FullMode(resampler)) =>
             /\ Len(resampler'.taps) = Len(resampler.taps)
             /\ \A p \in 1..Len(resampler.taps) :
                   resampler'.taps[p] =
                      IF resampler.taps[p] # -1 THEN resampler.taps[p]
                      ELSE IF PhaseUsed(p - 1)
                      THEN (p - 1) * resampler.cstride
                      ELSE -1
       /\ (alive /\ alive' /\ ~UpdateStep) =>
             /\ RowParams(resampler') = RowParams(resampler)
             /\ ResampleStep \/ resampler'.taps = resampler.taps
       /\ (alive' /\ fault' = "none" /\ FullMode(resampler')) =>
             /\ Len(resampler'.taps) = resampler'.out_rate
             /\ \A p \in 1..resampler'.out_rate :
                   resampler'.taps[p] \in {-1, (p - 1) * resampler'.cstride}]_vars

\* a resample call in FULL mode with two phases wrote three samples or more:
\* both rows are in the table and one of them was used again
C30_Witness ==
    /\ Sound /\ FullMode(resampler)
    /\ last.op = "resample"
    /\ resampler.out_rate = 2
    /\ Len(last.phases) >= 3
    /\ \A p \in 1..2 : resampler.taps[p] = (p - 1) * resampler.cstride

===========================================================================
